---------------------------- MODULE Spec2Model ----------------------------
(***************************************************************************)
(* Model of the juiced EVSE control core (juicelib/src/evse.rs,            *)
(* peripherals.rs, pilot.rs): the J1772 state machine and its control      *)
(* loop, the hardware facade with the contactor / power-watchdog           *)
(* discipline, the GFI self-test, the fault listener and the sampler.      *)
(***************************************************************************)
EXTENDS Integers, Sequences, FiniteSets, TLC

(***************************************************************************)
(* Bounds of the model and program constants                               *)
(***************************************************************************)
\* modelled capacity of the two bounded channels (the code uses bounded(16))
QueueCap == 1

\* resolution of the modelled voltages: VoltScale steps per volt
VoltScale == 2

\* const GFI_TEST_CYCLES: u64 = 10
GFI_TEST_CYCLES == 10

\* EVSEHardware::MAX_CURRENT_OFFER (ampere)
MAX_CURRENT_OFFER == 32

\* Duty cycles are held in units of 1/6000, in which ampere / 0.6 / 100. is
\* ampere * 100 exactly.  Pilot::new: duty_cycle: 1.0
DutyOne == 6000

\* set_to_waiting_for_vehicle: pwm.set_duty_cycle(1.01)
DutyWaiting == 6060

\* SensorsState::MAX_READINGS
MAX_READINGS == 100

\* how many readings the sensors harness adds to each sequence at most
MaxAdds == 103

(***************************************************************************)
(* Data types                                                              *)
(***************************************************************************)
States ==
    {"SelfTest", "Standby", "VehicleDetected", "StartCharging", "Charging",
     "StopCharging", "NoPower", "VentilationNeeded", "ResetableError",
     "FailedStation"}

Inputs ==
    {"SelfTestOk", "SelfTestFailed", "HardwareFault", "PilotIs12V",
     "PilotIs9V", "PilotIs6V", "PilotIs3V", "PilotIsNegative12V",
     "PilotInError", "GFIInterrupted", "NoGround", "ChargingFinished"}

Faults == {"GFIInterrupted", "NoGround", "PilotInError", "InternalFaultThreadError"}

Level == {"High", "Low"}

OnOff == {"On", "Off"}

\* impl From<OnOff> for Level
IntoLevel(s) == IF s = "On" THEN "High" ELSE "Low"

\* impl From<Level> for OnOff
IntoOnOff(l) == IF l = "High" THEN "On" ELSE "Off"

(***************************************************************************)
(* state_machine! { EVSEMachine(SelfTest) ... }: the transitions the macro *)
(* declares, as (input -> next state) per state.  A state with no entry    *)
(* (VentilationNeeded, FailedStation) declares no transition.              *)
(***************************************************************************)
EVSEMachine(s) ==
    CASE s = "SelfTest" ->
           { <<"SelfTestOk", "Standby">>,
             <<"SelfTestFailed", "FailedStation">>,
             <<"HardwareFault", "FailedStation">> }
      [] s = "Standby" ->
           { <<"PilotIs12V", "Standby">>,
             <<"PilotIs9V", "VehicleDetected">>,
             <<"PilotIs6V", "ResetableError">>,
             <<"PilotIs3V", "ResetableError">>,
             <<"GFIInterrupted", "FailedStation">>,
             <<"NoGround", "FailedStation">>,
             <<"HardwareFault", "FailedStation">>,
             <<"PilotIsNegative12V", "FailedStation">> }
      [] s = "VehicleDetected" ->
           { <<"PilotIs12V", "Standby">>,
             <<"PilotIs9V", "VehicleDetected">>,
             <<"PilotIs6V", "StartCharging">>,
             <<"PilotIs3V", "VentilationNeeded">>,
             <<"PilotIsNegative12V", "NoPower">>,
             <<"PilotInError", "ResetableError">>,
             <<"GFIInterrupted", "FailedStation">>,
             <<"NoGround", "FailedStation">>,
             <<"HardwareFault", "FailedStation">> }
      [] s = "StartCharging" ->
           { <<"PilotInError", "ResetableError">>,
             <<"GFIInterrupted", "FailedStation">>,
             <<"NoGround", "FailedStation">>,
             <<"HardwareFault", "FailedStation">>,
             <<"SelfTestOk", "Charging">>,
             <<"SelfTestFailed", "ResetableError">> }
      [] s = "Charging" ->
           { <<"PilotIs12V", "StopCharging">>,
             <<"PilotIs9V", "StopCharging">>,
             <<"PilotIs6V", "Charging">>,
             <<"PilotIs3V", "VentilationNeeded">>,
             <<"PilotIsNegative12V", "StopCharging">>,
             <<"PilotInError", "StopCharging">>,
             <<"GFIInterrupted", "FailedStation">>,
             <<"NoGround", "FailedStation">>,
             <<"HardwareFault", "FailedStation">> }
      [] s = "StopCharging" ->
           { <<"ChargingFinished", "Standby">>,
             <<"PilotInError", "ResetableError">>,
             <<"GFIInterrupted", "FailedStation">>,
             <<"NoGround", "FailedStation">>,
             <<"HardwareFault", "FailedStation">> }
      [] s = "NoPower" ->
           { <<"PilotIsNegative12V", "NoPower">>,
             <<"HardwareFault", "FailedStation">> }
      [] s = "ResetableError" ->
           { <<"PilotIs12V", "Standby">> }
      [] OTHER -> {}

\* consume with Charging left for Standby at once when the pilot returns to
\* +12 V, without the StopCharging state that opens the contactor
consume_ChargingToStandby(s, input) ==
    IF s = "Charging" /\ input = "PilotIs12V"
    THEN "Standby"
    ELSE IF \E t \in EVSEMachine(s) : t[1] = input
    THEN (CHOOSE t \in EVSEMachine(s) : t[1] = input)[2]
    ELSE s

\* consume with Charging left for VehicleDetected when the pilot returns to
\* +9 V, the transition test_charging_finished expects
consume_ChargingToVehicleDetected(s, input) ==
    IF s = "Charging" /\ input = "PilotIs9V"
    THEN "VehicleDetected"
    ELSE IF \E t \in EVSEMachine(s) : t[1] = input
    THEN (CHOOSE t \in EVSEMachine(s) : t[1] = input)[2]
    ELSE s

\* StateMachine::consume: the declared transition is taken; an input with no
\* declared transition returns an error (which start_machine only logs) and
\* leaves the state as it is.
consume(s, input) ==
    IF \E t \in EVSEMachine(s) : t[1] = input
    THEN (CHOOSE t \in EVSEMachine(s) : t[1] = input)[2]
    ELSE s

(***************************************************************************)
(* fn get_pilot_state(min_max): the classifier.  Voltages are held in      *)
(* units of 1/VoltScale volt, so that a threshold t of the code is         *)
(* t * VoltScale.                                                          *)
(***************************************************************************)
get_pilot_state(min_max) ==
    LET vm12 == min_max[1]
        voltage == min_max[2]
        V(t) == t * VoltScale
    IN  IF (vm12 > V(-11) /\ vm12 > V(-13)) /\ vm12 < V(0) THEN "PilotInError"
        ELSE IF V(13) > voltage /\ voltage > V(11) THEN "PilotIs12V"
        ELSE IF V(10) > voltage /\ voltage > V(8) THEN "PilotIs9V"
        ELSE IF V(7) > voltage /\ voltage > V(5) THEN "PilotIs6V"
        ELSE IF V(4) > voltage /\ voltage > V(2) THEN "PilotIs3V"
        ELSE IF V(-11) > voltage /\ voltage > V(-13) THEN "PilotIsNegative12V"
        ELSE "PilotInError"

\* the (min, max) pairs the sampler delivers in the model: one per pilot symbol
Readings ==
    { <<-12 * VoltScale, v * VoltScale>> : v \in {12, 9, 6, 3, -12} }
        \cup { <<0, 0>> }

(***************************************************************************)
(* State                                                                   *)
(***************************************************************************)
VARIABLES
    machine,            \* StateMachine<EVSEMachine>: the current state
    pc,                 \* main thread: the statement it is at
    stack,              \* main thread: return labels of the calls in progress
    state_input,        \* start_machine: let mut state_input
    res,                \* start_machine: let res = do_state_transition(..)
    next_state_input,   \* do_state_transition: let mut next_state_input
    self_test_result,   \* the value run_gfi_self_test returned to its caller
    cycle,              \* run_gfi_self_test: the burst loop's counter
    contactor,          \* EVSEHardwareImpl.contactor: the commanded state
    contactor_pin,      \* Pins.contactor_pin: the level last written
    gfi_test_pin,       \* Pins.gfi_test_pin: the level last written
    gfi_status_pin,     \* Pins.gfi_status_pin: the input level (environment)
    async_interrupt,    \* whether a rising-edge handler is installed on it
    power_watchdog_oscillating, \* Pins.power_watchdog_oscillating
    wave_tx,            \* whether the watchdog waveform is being transmitted
    pwm_duty,           \* Pilot.pwm: the duty cycle last written to the PWM
    duty_cycle,         \* Pilot.duty_cycle: the cached duty cycle
    current_offer,      \* EVSEHardwareImpl.current_offer (ampere)
    listen_to_pilot,    \* the AtomicBool gate of the sampler
    fpc,                \* fault listener thread: the statement it is at
    fault_q,            \* the fault channel, bounded
    spc,                \* sampler thread: the statement it is at
    pilot_q,            \* the pilot channel, bounded
    sc_log,             \* history: what the set_contactor call in progress did
    st_reads,           \* history: GFI-status levels the self-test has read
    t_from,             \* consume harness: the state before the last consume
    t_input,            \* consume harness: the input given to the last consume
    t_min_max,          \* classifier harness: the pair last classified
    t_prev,             \* contactor harness: the call before the current one
    gfi_rose_on,        \* history: the last rise of gfi_status_pin came with
                        \* the contactor pin High
    script,             \* scenario: the pilot readings the vehicle presents,
                        \* in order
    fed,                \* scenario: how many of them the sampler has
                        \* delivered; -1 when the pilot is not scripted
    sel,                \* get_new_state_input: "try" until sel.select() has
                        \* looked at the two channels, "blocked" once it
                        \* found neither ready and waits
    relay_read,         \* history: the level the last get_relay_test_pin of
                        \* the action in progress returned
    current_sensor,     \* SensorsState: Vec<SensorReading>; a reading is held
                        \* as the ordinal of the call that added it
    mains_peak,         \* SensorsState: Vec<SensorReading>, likewise
    last_update,        \* SensorsState: Instant, as the number of insertions
                        \* made when it was taken
    cs_added,           \* sensors harness: calls of add_cs_reading so far
    mains_added         \* sensors harness: calls of add_mains_peak_reading

vars ==
    << machine, pc, stack, state_input, res, next_state_input, self_test_result,
       cycle, contactor, contactor_pin, gfi_test_pin, gfi_status_pin,
       async_interrupt, power_watchdog_oscillating, wave_tx, pwm_duty,
       duty_cycle, current_offer, listen_to_pilot, fpc, fault_q, spc, pilot_q,
       sc_log, st_reads, t_from, t_input, t_min_max, t_prev, gfi_rose_on,
       script, fed, sel, relay_read, current_sensor, mains_peak, last_update,
       cs_added, mains_added >>

mainLocals == << state_input, res, next_state_input, cycle >>
pinVars == << contactor_pin, gfi_test_pin, async_interrupt >>
wdVars == << power_watchdog_oscillating, wave_tx >>
pilotVars == << pwm_duty, duty_cycle, current_offer >>
faultVars == << fpc, fault_q >>
samplerVars == << spc >>
sensorVars ==
    << current_sensor, mains_peak, last_update, cs_added, mains_added >>
consumeVars == << t_from, t_input, t_min_max, t_prev, sensorVars >>
histVars == << consumeVars, gfi_rose_on, script, fed, sel >>
lastVars == << histVars, relay_read >>

(***************************************************************************)
(* The pins mutex.  Every facade operation of the main thread takes and    *)
(* releases it within one step; the fault listener keeps it from waking up *)
(* until it has sent its fault, so it is held across steps only while the  *)
(* listener is at its send.                                                *)
(***************************************************************************)
PinsLocked == fpc = "f_send"

\* the process is alive: the main thread has not panicked
Running == pc # "halted"

(***************************************************************************)
(* Calls, returns and the ? operator of the main thread                    *)
(***************************************************************************)
\* the statements of run_gfi_self_test
SelfTestLabels ==
    {"st_1", "st_2", "st_3", "st_4", "st_5", "st_on", "st_off", "st_6",
     "st_7", "st_8", "st_9", "st_10", "st_11"}

\* the main thread is inside run_gfi_self_test or a call it made
InSelfTest ==
    \/ pc \in SelfTestLabels
    \/ \E k \in 1..Len(stack) : stack[k] \in SelfTestLabels

\* return Ok(..) from the innermost call
Return ==
    /\ pc' = Head(stack)
    /\ stack' = Tail(stack)
    /\ UNCHANGED self_test_result

\* return Err(..): every caller inside do_state_transition propagates it
\* with ?, so it ends at the call made by start_machine: the boot self-test
\* (match self_test_result), do_state_transition (match res) or the
\* set_contactor(Off).unwrap_or(()) of the error arm, which drops it.
\* Every error of run_gfi_self_test is a Report of HwError::HardwareFault.
Raise ==
    LET outer == IF stack = << >> THEN "none" ELSE stack[Len(stack)]
    IN  /\ pc' = (IF outer = "boot_ok" THEN "boot_err"
                  ELSE IF outer = "consume" THEN "consume"
                  ELSE "sm_err")
        /\ stack' = << >>
        /\ self_test_result' =
               (IF InSelfTest THEN "HardwareFault" ELSE self_test_result)

\* set_oscillate_watchdog without its early return: it sends the request
\* whatever the cached flag says
set_oscillate_watchdog_NoCache(oscillate, io_ok, sent, result) ==
    IF io_ok
    THEN /\ result = "Ok"
         /\ wave_tx' = oscillate
         /\ power_watchdog_oscillating' = oscillate
    ELSE /\ result = "Err"
         /\ wave_tx' = (IF sent THEN oscillate ELSE wave_tx)
         /\ UNCHANGED power_watchdog_oscillating

\* set_oscillate_watchdog whose start records the oscillation without
\* sending the wave (start_pio_pwm taking its wave_id = None branch)
set_oscillate_watchdog_NoWave(oscillate, io_ok, sent, result) ==
    IF power_watchdog_oscillating = oscillate
    THEN /\ result = "Ok"
         /\ UNCHANGED wdVars
    ELSE IF io_ok
    THEN /\ result = "Ok"
         /\ wave_tx' = FALSE
         /\ power_watchdog_oscillating' = oscillate
    ELSE /\ result = "Err"
         /\ wave_tx' = (IF sent THEN FALSE ELSE wave_tx)
         /\ UNCHANGED power_watchdog_oscillating

(***************************************************************************)
(* GpioPeripherals::set_oscillate_watchdog with start_pio_pwm and          *)
(* stop_pio_pwm.  io_ok: the request to pigpiod succeeds; sent: whether a  *)
(* failed request still reached the daemon.  wave_id is Some from          *)
(* construction on, so start_pio_pwm always sends the wave.                *)
(***************************************************************************)
set_oscillate_watchdog(oscillate, io_ok, sent, result) ==
    IF power_watchdog_oscillating = oscillate
    THEN /\ result = "Ok"
         /\ UNCHANGED wdVars
    ELSE IF io_ok
    THEN /\ result = "Ok"
         /\ wave_tx' = oscillate
         /\ power_watchdog_oscillating' = oscillate
    ELSE /\ result = "Err"
         /\ wave_tx' = (IF sent THEN oscillate ELSE wave_tx)
         /\ UNCHANGED power_watchdog_oscillating

\* set_contactor writing the pin before it looks at the watchdog, for On as
\* for Off
CallSetContactor_PinFirst(state, ret) ==
    /\ contactor' = state
    /\ sc_log' = << >>
    /\ stack' = << ret >> \o stack
    /\ pc' = "sc_pin"

(***************************************************************************)
(* EVSEHardwareImpl::set_contactor                                         *)
(***************************************************************************)
\* the call and its first statement, self.contactor = state.clone()
CallSetContactor(state, ret) ==
    /\ contactor' = state
    /\ sc_log' = << >>
    /\ stack' = << ret >> \o stack
    /\ pc' = (IF state = "On" THEN "sc_wd_on" ELSE "sc_pin")

\* if oscillate { set_oscillate_watchdog(oscillate)? }
ScWatchdogOn ==
    /\ pc = "sc_wd_on"
    /\ ~PinsLocked
    /\ \E io_ok \in BOOLEAN, sent \in BOOLEAN, result \in {"Ok", "Err"} :
          /\ set_oscillate_watchdog(TRUE, io_ok, sent, result)
          /\ sc_log' = Append(sc_log,
                 IF result = "Err" THEN "watchdog_start_failed"
                 ELSE IF power_watchdog_oscillating THEN "watchdog_kept"
                 ELSE "watchdog_start")
          /\ IF result = "Ok"
             THEN pc' = "sc_pin" /\ UNCHANGED << stack, self_test_result >>
             ELSE Raise
    /\ UNCHANGED << machine, mainLocals, contactor, pinVars, gfi_status_pin,
                    pilotVars, listen_to_pilot, faultVars, samplerVars,
                    pilot_q, st_reads, lastVars >>

\* set_contactor returning after the pin write, for Off as for On
ScWritePin_NoStop ==
    /\ pc = "sc_pin"
    /\ ~PinsLocked
    /\ contactor_pin' = IntoLevel(contactor)
    /\ sc_log' = Append(sc_log, "pin_" \o IntoLevel(contactor))
    /\ Return
    /\ UNCHANGED << machine, mainLocals, contactor, gfi_test_pin,
                    async_interrupt, gfi_status_pin, wdVars, pilotVars,
                    listen_to_pilot, faultVars, samplerVars, pilot_q,
                    st_reads, lastVars >>

\* self.hw_peripherals.set_contactor_pin(state.clone().into())
ScWritePin ==
    /\ pc = "sc_pin"
    /\ ~PinsLocked
    /\ contactor_pin' = IntoLevel(contactor)
    /\ sc_log' = Append(sc_log, "pin_" \o IntoLevel(contactor))
    /\ IF contactor = "Off"
       THEN pc' = "sc_wd_off" /\ UNCHANGED << stack, self_test_result >>
       ELSE Return
    /\ UNCHANGED << machine, mainLocals, contactor, gfi_test_pin,
                    async_interrupt, gfi_status_pin, wdVars, pilotVars,
                    listen_to_pilot, faultVars, samplerVars, pilot_q,
                    st_reads, lastVars >>

\* if !oscillate { set_oscillate_watchdog(oscillate)? }  Ok(())
ScWatchdogOff ==
    /\ pc = "sc_wd_off"
    /\ ~PinsLocked
    /\ \E io_ok \in BOOLEAN, sent \in BOOLEAN, result \in {"Ok", "Err"} :
          /\ set_oscillate_watchdog(FALSE, io_ok, sent, result)
          /\ sc_log' = Append(sc_log,
                 IF result = "Err" THEN "watchdog_stop_failed"
                 ELSE IF power_watchdog_oscillating THEN "watchdog_stop"
                 ELSE "watchdog_kept")
          /\ IF result = "Ok" THEN Return ELSE Raise
    /\ UNCHANGED << machine, mainLocals, contactor, pinVars, gfi_status_pin,
                    pilotVars, listen_to_pilot, faultVars, samplerVars,
                    pilot_q, st_reads, lastVars >>


(***************************************************************************)
(* Pilot (pilot.rs) and the pilot operations of the facade                 *)
(***************************************************************************)
\* Pilot::set_duty_cycle.  io_ok: the write to the PWM succeeds.
Pilot_set_duty_cycle(d, io_ok, result) ==
    IF duty_cycle = d
    THEN /\ result = "Ok"
         /\ UNCHANGED << pwm_duty, duty_cycle >>
    ELSE IF io_ok
    THEN /\ result = "Ok"
         /\ pwm_duty' = 0
         /\ duty_cycle' = d
    ELSE /\ result = "Err"
         /\ UNCHANGED << pwm_duty, duty_cycle >>

\* GpioPeripherals::set_pilot_ampere: duty_cycle = ampere / 0.6 / 100.
set_pilot_ampere(ampere, io_ok, result) ==
    Pilot_set_duty_cycle(ampere * 100, io_ok, result)

\* EVSEHardwareImpl::set_current_offer_ampere
set_current_offer_ampere(ampere, io_ok, result) ==
    /\ set_pilot_ampere(ampere, io_ok, result)
    /\ current_offer' = (IF result = "Ok" THEN ampere ELSE current_offer)

\* set_to_waiting_for_vehicle going through Pilot::set_duty_cycle(1.01)
set_to_waiting_for_vehicle_Cached(io_ok, result) ==
    /\ Pilot_set_duty_cycle(DutyWaiting, io_ok, result)
    /\ UNCHANGED current_offer

\* Pilot::set_to_waiting_for_vehicle
set_to_waiting_for_vehicle(io_ok, result) ==
    /\ result = (IF io_ok THEN "Ok" ELSE "Err")
    /\ pwm_duty' = (IF io_ok THEN DutyWaiting ELSE pwm_duty)
    /\ UNCHANGED << duty_cycle, current_offer >>

(***************************************************************************)
(* GpioPeripherals::reset_gfi_status_pin.  io_ok: clear_interrupt and      *)
(* clear_async_interrupt succeed; cleared: whether a failed call still     *)
(* removed the handler.                                                    *)
(***************************************************************************)
reset_gfi_status_pin(io_ok, cleared, result) ==
    IF io_ok
    THEN /\ async_interrupt' = FALSE
         /\ st_reads' = Append(st_reads, gfi_status_pin)
         /\ result = (IF gfi_status_pin = "High" THEN "Err" ELSE "Ok")
    ELSE /\ async_interrupt' = (IF cleared THEN FALSE ELSE async_interrupt)
         /\ UNCHANGED st_reads
         /\ result = "Err"

(***************************************************************************)
(* fn run_gfi_self_test                                                    *)
(***************************************************************************)
\* the call: the caller continues at ret when the test returns Ok
CallSelfTest(ret) ==
    /\ pc' = "st_1"
    /\ stack' = << ret >> \o stack
    /\ self_test_result' = "none"
    /\ st_reads' = << >>

\* what a step of the main thread that touches neither the pins nor the
\* pilot nor the machine leaves alone
relayQuiet ==
    << machine, contactor, contactor_pin, wdVars, pilotVars, gfi_status_pin,
       listen_to_pilot, faultVars, samplerVars, pilot_q, sc_log, histVars >>

mainQuiet == << relayQuiet, relay_read >>

\* evse.set_ground_test_pin(OnOff::Off)?
St1 ==
    /\ pc = "st_1"
    /\ ~PinsLocked
    /\ gfi_test_pin' = IntoLevel("Off")
    /\ pc' = "st_2"
    /\ UNCHANGED << mainQuiet, mainLocals, stack, self_test_result,
                    async_interrupt, st_reads >>

\* evse.set_contactor(OnOff::Off)?
St2 ==
    /\ pc = "st_2"
    /\ CallSetContactor("Off", "st_3")
    /\ UNCHANGED << machine, mainLocals, self_test_result, pinVars, wdVars,
                    pilotVars, gfi_status_pin, listen_to_pilot, faultVars,
                    samplerVars, pilot_q, st_reads, lastVars >>

\* sleep; evse.gfi_reset()?: the reset pin is pulsed High and back to Low
St3 ==
    /\ pc \in {"st_3", "st_7"}
    /\ ~PinsLocked
    /\ pc' = (IF pc = "st_3" THEN "st_4" ELSE "st_8")
    /\ UNCHANGED << mainQuiet, mainLocals, stack, self_test_result, pinVars,
                    st_reads >>

\* evse.reset_gfi_status_pin()?  (lines 116, 133 and 144; after the last one
\* the test returns Ok(EVSEMachineInput::SelfTestOk))
St4 ==
    /\ pc \in {"st_4", "st_8", "st_11"}
    /\ ~PinsLocked
    /\ \E io_ok \in BOOLEAN, cleared \in BOOLEAN, result \in {"Ok", "Err"} :
          /\ reset_gfi_status_pin(io_ok, cleared, result)
          /\ IF result = "Err" THEN Raise
             ELSE IF pc = "st_11"
             THEN /\ pc' = Head(stack)
                  /\ stack' = Tail(stack)
                  /\ self_test_result' = "SelfTestOk"
             ELSE /\ pc' = (IF pc = "st_4" THEN "st_5" ELSE "st_9")
                  /\ UNCHANGED << stack, self_test_result >>
    /\ UNCHANGED << mainQuiet, mainLocals, gfi_test_pin >>

\* if evse.get_gfi_status_pin() != Level::Low { return Err(..) }
\* (lines 118, 136 and 140)
St5 ==
    /\ pc \in {"st_5", "st_9", "st_10"}
    /\ ~PinsLocked
    /\ st_reads' = Append(st_reads, gfi_status_pin)
    /\ IF gfi_status_pin # "Low" THEN Raise
       ELSE /\ pc' = (CASE pc = "st_5" -> "st_on"
                        [] pc = "st_9" -> "st_10"
                        [] pc = "st_10" -> "st_11")
            /\ UNCHANGED << stack, self_test_result >>
    /\ UNCHANGED << mainQuiet, mainLocals, pinVars >>

\* for _ in 0..GFI_TEST_CYCLES { evse.set_ground_test_pin(OnOff::On)?; sleep
StOn ==
    /\ pc = "st_on"
    /\ ~PinsLocked
    /\ IF cycle < GFI_TEST_CYCLES
       THEN /\ gfi_test_pin' = IntoLevel("On")
            /\ pc' = "st_off"
            /\ UNCHANGED cycle
       ELSE /\ pc' = "st_6"
            /\ cycle' = 0      \* the loop variable goes out of scope
            /\ UNCHANGED gfi_test_pin
    /\ UNCHANGED << mainQuiet, state_input, res, next_state_input, stack,
                    self_test_result, contactor_pin, async_interrupt,
                    st_reads >>

\* the loop of run_gfi_self_test without its second write: the GFI-test pin
\* stays On after the burst
StOff_KeepOn ==
    /\ pc = "st_off"
    /\ ~PinsLocked
    /\ cycle' = cycle + 1
    /\ pc' = "st_on"
    /\ UNCHANGED << mainQuiet, state_input, res, next_state_input, stack,
                    self_test_result, async_interrupt, st_reads,
                    gfi_test_pin >>

\* evse.set_ground_test_pin(OnOff::Off)?; sleep }
StOff ==
    /\ pc = "st_off"
    /\ ~PinsLocked
    /\ gfi_test_pin' = IntoLevel("Off")
    /\ cycle' = cycle + 1
    /\ pc' = "st_on"
    /\ UNCHANGED << mainQuiet, state_input, res, next_state_input, stack,
                    self_test_result, async_interrupt, st_reads >>

\* run_gfi_self_test without the check that the burst tripped the GFI
St6_NoCheck ==
    /\ pc = "st_6"
    /\ ~PinsLocked
    /\ st_reads' = Append(st_reads, gfi_status_pin)
    /\ pc' = "st_7"
    /\ UNCHANGED << stack, self_test_result >>
    /\ UNCHANGED << mainQuiet, mainLocals, pinVars >>

\* if evse.get_gfi_status_pin() == Level::Low { return Err(..) }
St6 ==
    /\ pc = "st_6"
    /\ ~PinsLocked
    /\ st_reads' = Append(st_reads, gfi_status_pin)
    /\ IF gfi_status_pin = "Low" THEN Raise
       ELSE pc' = "st_7" /\ UNCHANGED << stack, self_test_result >>
    /\ UNCHANGED << mainQuiet, mainLocals, pinVars >>


(***************************************************************************)
(* fn do_state_transition                                                  *)
(***************************************************************************)
\* ensure!(hw.get_relay_test_pin() == expect, HwError::HardwareFault): the
\* relay-mirror input is read, and may read either level
EnsureRelay(expect, next) ==
    \E relay_test_pin \in Level :
        /\ relay_read' = relay_test_pin
        /\ IF relay_test_pin = expect
           THEN pc' = next /\ UNCHANGED << stack, self_test_result >>
           ELSE Raise

\* a step that only calls set_contactor
OnlyCall ==
    << machine, mainLocals, self_test_result, pinVars, wdVars, pilotVars,
       gfi_status_pin, listen_to_pilot, faultVars, samplerVars, pilot_q,
       st_reads, lastVars >>

\* a step that only reads the relay mirror
OnlyRelay ==
    << relayQuiet, mainLocals, pinVars, st_reads >>

\* Standby: hw.set_contactor(OnOff::Off)?
Standby1 ==
    /\ pc = "sb_1"
    /\ CallSetContactor("Off", "sb_2")
    /\ UNCHANGED OnlyCall

\* hw.set_waiting_for_vehicle()?: self.set_contactor(OnOff::Off)?
Standby2 ==
    /\ pc = "sb_2"
    /\ CallSetContactor("Off", "sb_3")
    /\ UNCHANGED OnlyCall

\* ... self.get_peripherals().set_waiting_for_vehicle()
Standby3 ==
    /\ pc = "sb_3"
    /\ \E io_ok \in BOOLEAN, result \in {"Ok", "Err"} :
          /\ set_to_waiting_for_vehicle(io_ok, result)
          /\ IF result = "Ok"
             THEN pc' = "sb_4" /\ UNCHANGED << stack, self_test_result >>
             ELSE Raise
    /\ UNCHANGED << machine, mainLocals, contactor, pinVars, wdVars,
                    gfi_status_pin, listen_to_pilot, faultVars, samplerVars,
                    pilot_q, sc_log, st_reads, lastVars >>

\* ... self.set_ground_test_pin(OnOff::Off)?
Standby4 ==
    /\ pc = "sb_4"
    /\ ~PinsLocked
    /\ gfi_test_pin' = IntoLevel("Off")
    /\ pc' = "sb_5"
    /\ UNCHANGED << mainQuiet, mainLocals, stack, self_test_result,
                    async_interrupt, st_reads >>

\* sleep(1000 ms); listen_to_pilot.store(true)
Standby5 ==
    /\ pc = "sb_5"
    /\ listen_to_pilot' = TRUE
    /\ pc' = "sb_6"
    /\ UNCHANGED << machine, mainLocals, stack, self_test_result, contactor,
                    pinVars, wdVars, pilotVars, gfi_status_pin, faultVars,
                    samplerVars, pilot_q, sc_log, st_reads, lastVars >>

\* ensure!(hw.get_relay_test_pin() == Level::Low); Ok(None)
Standby6 ==
    /\ pc = "sb_6"
    /\ ~PinsLocked
    /\ EnsureRelay("Low", "recv")
    /\ UNCHANGED OnlyRelay

\* VehicleDetected: hw.set_contactor(OnOff::Off)?
VehicleDetected1 ==
    /\ pc = "vd_1"
    /\ CallSetContactor("Off", "vd_2")
    /\ UNCHANGED OnlyCall

\* sleep(100 ms); ensure!(hw.get_relay_test_pin() == Level::Low)
VehicleDetected2 ==
    /\ pc = "vd_2"
    /\ ~PinsLocked
    /\ EnsureRelay("Low", "vd_3")
    /\ UNCHANGED OnlyRelay

\* hw.set_current_offer_ampere(T::MAX_CURRENT_OFFER)?  (VehicleDetected)
\* hw.set_current_offer_ampere(0.)?  (StopCharging, NoPower)
SetCurrentOffer ==
    /\ pc \in {"vd_3", "stop_1", "np_1"}
    /\ \E io_ok \in BOOLEAN, result \in {"Ok", "Err"} :
          /\ set_current_offer_ampere(
                 IF pc = "vd_3" THEN MAX_CURRENT_OFFER ELSE 0, io_ok, result)
          /\ IF result = "Ok"
             THEN /\ pc' = (CASE pc = "vd_3" -> "vd_4"
                              [] pc = "stop_1" -> "stop_2"
                              [] pc = "np_1" -> "np_2")
                  /\ UNCHANGED << stack, self_test_result >>
             ELSE Raise
    /\ UNCHANGED << machine, mainLocals, contactor, pinVars, wdVars,
                    gfi_status_pin, listen_to_pilot, faultVars, samplerVars,
                    pilot_q, sc_log, st_reads, lastVars >>

\* hw.set_ground_test_pin(OnOff::Off)?  (the last statement of
\* VehicleDetected, which then returns Ok(None); NoPower goes on)
SetGroundTestOff ==
    /\ pc \in {"vd_4", "np_3"}
    /\ ~PinsLocked
    /\ gfi_test_pin' = IntoLevel("Off")
    /\ pc' = (IF pc = "vd_4" THEN "recv" ELSE "np_4")
    /\ UNCHANGED << mainQuiet, mainLocals, stack, self_test_result,
                    async_interrupt, st_reads >>

\* StartCharging: sleep(1 s); ensure!(hw.get_relay_test_pin() == Level::Low)
StartCharging1 ==
    /\ pc = "start_1"
    /\ ~PinsLocked
    /\ EnsureRelay("Low", "start_2")
    /\ UNCHANGED OnlyRelay

\* hw.set_contactor(OnOff::Off)?
StartCharging2 ==
    /\ pc = "start_2"
    /\ CallSetContactor("Off", "start_3")
    /\ UNCHANGED OnlyCall

\* StartCharging closing the contactor without running the GFI self-test
StartCharging3_NoSelfTest ==
    /\ pc = "start_3"
    /\ ~PinsLocked
    /\ next_state_input' = "SelfTestOk"
    /\ \E relay_test_pin \in Level :
          /\ relay_read' = relay_test_pin
          /\ IF IntoOnOff(relay_test_pin) = "Off"
             THEN /\ CallSetContactor("On", "start_5")
                  /\ UNCHANGED << self_test_result, st_reads >>
             ELSE /\ pc' = "start_5"
                  /\ UNCHANGED << stack, self_test_result, st_reads,
                                  contactor, sc_log >>
    /\ UNCHANGED << machine, contactor_pin, wdVars, pilotVars, gfi_status_pin,
                    listen_to_pilot, faultVars, samplerVars, pilot_q,
                    histVars, state_input, res, cycle, pinVars >>

\* next_state_input = Some(SelfTestOk); let state = hw.get_contactor_state()?;
\* if OnOff::Off == state { run_gfi_self_test(hw)? ...
StartCharging3 ==
    /\ pc = "start_3"
    /\ ~PinsLocked
    /\ next_state_input' = "SelfTestOk"
    /\ \E relay_test_pin \in Level :
          /\ relay_read' = relay_test_pin
          /\ IF IntoOnOff(relay_test_pin) = "Off"
             THEN CallSelfTest("start_4")
             ELSE /\ pc' = "start_5"
                  /\ UNCHANGED << stack, self_test_result, st_reads >>
    /\ UNCHANGED << relayQuiet, state_input, res, cycle, pinVars >>

\* match self_test_result { SelfTestFailed => return Err(..),
\*                          _ => hw.set_contactor(OnOff::On)? }
StartCharging4 ==
    /\ pc = "start_4"
    /\ IF self_test_result = "SelfTestFailed"
       THEN Raise /\ UNCHANGED << contactor, sc_log >>
       ELSE CallSetContactor("On", "start_5") /\ UNCHANGED self_test_result
    /\ UNCHANGED << machine, mainLocals, pinVars, wdVars, pilotVars,
                    gfi_status_pin, listen_to_pilot, faultVars, samplerVars,
                    pilot_q, st_reads, lastVars >>

\* ensure!(hw.get_relay_test_pin() == Level::High); Ok(next_state_input)
StartCharging5 ==
    /\ pc = "start_5"
    /\ ~PinsLocked
    /\ EnsureRelay("High", "consume")
    /\ state_input' = (IF pc' = "consume" THEN next_state_input ELSE state_input)
    /\ UNCHANGED << relayQuiet, res, next_state_input, cycle, pinVars,
                    st_reads >>

\* Charging: ensure!(hw.get_relay_test_pin() == Level::High); Ok(None)
Charging1 ==
    /\ pc = "ch_1"
    /\ ~PinsLocked
    /\ EnsureRelay("High", "recv")
    /\ UNCHANGED OnlyRelay

\* the StopCharging arm without its set_contactor(Off)
StopCharging2_NoOff ==
    /\ pc = "stop_2"
    /\ pc' = "stop_3"
    /\ UNCHANGED << stack, contactor, sc_log >>
    /\ UNCHANGED OnlyCall

\* StopCharging: (set_current_offer_ampere(0.)?; sleep(2 s);)
\* hw.set_contactor(OnOff::Off)?
StopCharging2 ==
    /\ pc = "stop_2"
    /\ CallSetContactor("Off", "stop_3")
    /\ UNCHANGED OnlyCall

\* the StopCharging arm injecting ChargingFinished whatever the relay
\* mirror reads
StopCharging3_NoEnsure ==
    /\ pc = "stop_3"
    /\ ~PinsLocked
    /\ \E relay_test_pin \in Level : relay_read' = relay_test_pin
    /\ pc' = "consume"
    /\ next_state_input' = "ChargingFinished"
    /\ state_input' = "ChargingFinished"
    /\ UNCHANGED << stack, self_test_result >>
    /\ UNCHANGED << relayQuiet, res, cycle, pinVars, st_reads >>

\* the StopCharging arm returning Ok(None): nothing is handed to consume,
\* and the loop waits for the next reading
StopCharging3_NoInject ==
    /\ pc = "stop_3"
    /\ ~PinsLocked
    /\ EnsureRelay("Low", "recv")
    /\ UNCHANGED << next_state_input, state_input >>
    /\ UNCHANGED << relayQuiet, res, cycle, pinVars, st_reads >>

\* sleep(100 ms); ensure!(hw.get_relay_test_pin() == Level::Low);
\* next_state_input = Some(ChargingFinished); Ok(next_state_input)
StopCharging3 ==
    /\ pc = "stop_3"
    /\ ~PinsLocked
    /\ EnsureRelay("Low", "consume")
    /\ IF pc' = "consume"
       THEN /\ next_state_input' = "ChargingFinished"
            /\ state_input' = "ChargingFinished"
       ELSE UNCHANGED << next_state_input, state_input >>
    /\ UNCHANGED << relayQuiet, res, cycle, pinVars, st_reads >>

\* NoPower: (set_current_offer_ampere(0.)?;) hw.set_contactor(OnOff::Off)?
NoPower2 ==
    /\ pc = "np_2"
    /\ CallSetContactor("Off", "np_3")
    /\ UNCHANGED OnlyCall

\* (set_ground_test_pin(Off)?;)
\* ensure!(hw.get_relay_test_pin() == Level::High); Ok(None)
NoPower4 ==
    /\ pc = "np_4"
    /\ ~PinsLocked
    /\ EnsureRelay("High", "recv")
    /\ UNCHANGED OnlyRelay

\* the `_` arm without its set_contactor(Off)
Other1_NoOff ==
    /\ pc = "other_1"
    /\ pc' = "other_2"
    /\ UNCHANGED << OnlyCall, contactor, sc_log, stack >>

\* _ => hw.set_contactor(OnOff::Off)?   (VentilationNeeded)
Other1 ==
    /\ pc = "other_1"
    /\ CallSetContactor("Off", "other_2")
    /\ UNCHANGED OnlyCall

\* ensure!(hw.get_relay_test_pin() == Level::High); Ok(None)
Other2 ==
    /\ pc = "other_2"
    /\ ~PinsLocked
    /\ EnsureRelay("High", "recv")
    /\ UNCHANGED OnlyRelay


(***************************************************************************)
(* fn get_new_state_input: the select over the two channels.  The pilot    *)
(* channel disconnects when the sampler has ended (its send never fails    *)
(* while the loop holds the receiver, but its ADC reads can); the fault    *)
(* channel disconnects when the fault listener has ended.                  *)
(***************************************************************************)
\* match fault { .. }
FaultInput(fault) ==
    CASE fault = "GFIInterrupted" -> "GFIInterrupted"
      [] fault = "NoGround" -> "NoGround"
      [] fault = "PilotInError" -> "PilotInError"
      [] fault = "InternalFaultThreadError" -> "HardwareFault"

OnlyRecv ==
    << machine, res, next_state_input, cycle, stack, self_test_result,
       contactor, pinVars, wdVars, pilotVars, gfi_status_pin,
       listen_to_pilot, fpc, samplerVars, sc_log, st_reads, consumeVars,
       gfi_rose_on, script, fed, relay_read >>

\* let oper = sel.select(), finding neither channel ready: the main thread
\* blocks until one of them is
SelectBlock ==
    /\ pc = "recv"
    /\ sel = "try"
    /\ pilot_q = << >>
    /\ fault_q = << >>
    /\ fpc # "f_done"
    /\ spc # "s_done"
    /\ sel' = "blocked"
    /\ UNCHANGED << OnlyRecv, pc, state_input, pilot_q, fault_q >>

\* a receive that takes PilotIs6V for a closed pilot channel
RecvPilot_ClosedIs6V ==
    /\ pc = "recv"
    /\ pilot_q # << >> \/ spc = "s_done"
    /\ IF pilot_q # << >>
       THEN /\ state_input' = get_pilot_state(Head(pilot_q))
            /\ pilot_q' = Tail(pilot_q)
       ELSE /\ state_input' = "PilotIs6V"
            /\ UNCHANGED pilot_q
    /\ pc' = "consume"
    /\ sel' = "try"
    /\ UNCHANGED << OnlyRecv, fault_q >>

\* a receive of a pilot reading that empties the fault queue
RecvPilot_DropFault ==
    /\ pc = "recv"
    /\ pilot_q # << >>
    /\ state_input' = get_pilot_state(Head(pilot_q))
    /\ pilot_q' = Tail(pilot_q)
    /\ pc' = "consume"
    /\ sel' = "try"
    /\ fault_q' = << >>
    /\ UNCHANGED OnlyRecv

\* 0 => { if let Err(_) = voltage { return PilotInError }
\*        get_pilot_state(voltage) }
\* A channel whose sender is gone gives what it still holds, then Err.
RecvPilot ==
    /\ pc = "recv"
    /\ pilot_q # << >> \/ spc = "s_done"
    /\ IF pilot_q # << >>
       THEN /\ state_input' = get_pilot_state(Head(pilot_q))
            /\ pilot_q' = Tail(pilot_q)
       ELSE /\ state_input' = "PilotInError"
            /\ UNCHANGED pilot_q
    /\ pc' = "consume"
    /\ sel' = "try"
    /\ UNCHANGED << OnlyRecv, fault_q >>

\* 1 => match oper.recv(&fault_channel) { Ok(fault) => .., Err(_) => PilotInError }
RecvFault ==
    /\ pc = "recv"
    /\ fault_q # << >> \/ fpc = "f_done"
    /\ IF fault_q # << >>
       THEN /\ state_input' = FaultInput(Head(fault_q))
            /\ fault_q' = Tail(fault_q)
       ELSE /\ state_input' = "PilotInError"
            /\ UNCHANGED fault_q
    /\ pc' = "consume"
    /\ sel' = "try"
    /\ UNCHANGED << OnlyRecv, pilot_q >>

\* start_machine without its FailedStation arm: the state falls to the arm
\* that runs do_state_transition
Dispatch_NoHalt(s) ==
    /\ state_input' = "PilotInError"
    /\ res' = "none"
    /\ next_state_input' = "None"
    /\ relay_read' = "none"
    /\ IF s = "SelfTest"
       THEN CallSelfTest("boot_ok")
       ELSE /\ pc' = (CASE s = "ResetableError" -> "consume"
                        [] s = "Standby" -> "sb_1"
                        [] s = "VehicleDetected" -> "vd_1"
                        [] s = "StartCharging" -> "start_1"
                        [] s = "Charging" -> "ch_1"
                        [] s = "StopCharging" -> "stop_1"
                        [] s = "NoPower" -> "np_1"
                        [] OTHER -> "other_1")
            /\ stack' = << >>
            /\ self_test_result' = "none"
            /\ UNCHANGED st_reads

(***************************************************************************)
(* fn start_machine: the control loop                                      *)
(***************************************************************************)
\* loop { let mut state_input = PilotInError; match machine.state() { .. } }
\* up to the first statement of the arm of state s
Dispatch(s) ==
    /\ state_input' = "PilotInError"
    /\ res' = "none"
    /\ next_state_input' = "None"
    /\ relay_read' = "none"
    /\ IF s = "SelfTest"
       THEN CallSelfTest("boot_ok")
       ELSE /\ pc' = (CASE s = "ResetableError" -> "consume"
                        [] s = "FailedStation" -> "panic"
                        [] s = "Standby" -> "sb_1"
                        [] s = "VehicleDetected" -> "vd_1"
                        [] s = "StartCharging" -> "start_1"
                        [] s = "Charging" -> "ch_1"
                        [] s = "StopCharging" -> "stop_1"
                        [] s = "NoPower" -> "np_1"
                        [] OTHER -> "other_1")
            /\ stack' = << >>
            /\ self_test_result' = "none"
            /\ UNCHANGED st_reads

\* let output = machine.consume(&state_input); and the next iteration's match
Consume ==
    /\ pc = "consume"
    /\ machine' = consume(machine, state_input)
    /\ Dispatch(machine')
    /\ UNCHANGED << histVars, cycle, contactor, pinVars, wdVars, pilotVars,
                    gfi_status_pin, listen_to_pilot, faultVars, samplerVars,
                    pilot_q, sc_log >>

\* SelfTest arm: liste_to_pilot.store(false); match self_test_result {
\*   Ok(SelfTestOk) => state_input = SelfTestOk, Ok(e) => state_input = e }
BootOk ==
    /\ pc = "boot_ok"
    /\ listen_to_pilot' = FALSE
    /\ state_input' = self_test_result
    /\ pc' = "consume"
    /\ UNCHANGED << machine, res, next_state_input, cycle, stack,
                    self_test_result, contactor, pinVars, wdVars, pilotVars,
                    gfi_status_pin, faultVars, samplerVars, pilot_q, sc_log,
                    st_reads, lastVars >>

\* the SelfTest arm keeping the initial state_input when the self-test
\* returns an error
BootErr_KeepInput ==
    /\ pc = "boot_err"
    /\ listen_to_pilot' = FALSE
    /\ state_input' = state_input
    /\ pc' = "consume"
    /\ UNCHANGED << machine, res, next_state_input, cycle, stack,
                    self_test_result, contactor, pinVars, wdVars, pilotVars,
                    gfi_status_pin, faultVars, samplerVars, pilot_q, sc_log,
                    st_reads, lastVars >>

\* ... Err(e) => state_input = SelfTestFailed
BootErr ==
    /\ pc = "boot_err"
    /\ listen_to_pilot' = FALSE
    /\ state_input' = "SelfTestFailed"
    /\ pc' = "consume"
    /\ UNCHANGED << machine, res, next_state_input, cycle, stack,
                    self_test_result, contactor, pinVars, wdVars, pilotVars,
                    gfi_status_pin, faultVars, samplerVars, pilot_q, sc_log,
                    st_reads, lastVars >>

\* Err(e) => { state_input = HardwareFault;
\*             evse.set_contactor(OnOff::Off).unwrap_or(()); }
ErrorArm ==
    /\ pc = "sm_err"
    /\ res' = "Err"
    /\ state_input' = "HardwareFault"
    /\ CallSetContactor("Off", "consume")
    /\ relay_read' = "none"      \* do_state_transition has returned
    /\ UNCHANGED << machine, next_state_input, cycle, self_test_result,
                    pinVars, wdVars, pilotVars, gfi_status_pin,
                    listen_to_pilot, faultVars, samplerVars, pilot_q,
                    st_reads, histVars >>

\* FailedStation => panic!("Fatal Error"): the main thread ends, and the
\* process with it
Panic ==
    /\ pc = "panic"
    /\ pc' = "halted"
    /\ UNCHANGED << machine, mainLocals, stack, self_test_result, contactor,
                    pinVars, wdVars, pilotVars, gfi_status_pin,
                    listen_to_pilot, faultVars, samplerVars, pilot_q, sc_log,
                    st_reads, lastVars >>

(***************************************************************************)
(* fn start_fault_thread: the fault listener                               *)
(***************************************************************************)
OnlyFault ==
    << machine, pc, stack, mainLocals, self_test_result, contactor,
       contactor_pin, gfi_test_pin, gfi_status_pin, wdVars, pilotVars,
       listen_to_pilot, samplerVars, pilot_q, sc_log, st_reads, lastVars >>

\* pins.lock(); gfi_status_pin.set_async_interrupt(RisingEdge, ..)?;
\* cond.wait(locked_pins): the lock is released while waiting.
\* io_ok: the handler is installed; cleared: a failed call still removed the
\* handler installed before.
FaultInstall ==
    /\ Running
    /\ fpc = "f_lock"
    /\ \E io_ok \in BOOLEAN, cleared \in BOOLEAN :
          IF io_ok
          THEN /\ async_interrupt' = TRUE
               /\ fpc' = "f_wait"
          ELSE /\ async_interrupt' = (IF cleared THEN FALSE ELSE async_interrupt)
               /\ fpc' = "f_err"
    /\ UNCHANGED << OnlyFault, fault_q >>

\* Condvar::wait may return without a notification
FaultSpuriousWake ==
    /\ Running
    /\ fpc = "f_wait"
    /\ fpc' = "f_woken"
    /\ UNCHANGED << OnlyFault, async_interrupt, fault_q >>

\* the listener publishing on the GFI level alone, without looking at the
\* contactor pin
FaultInspect_NoGate ==
    /\ Running
    /\ fpc = "f_woken"
    /\ LET gfi_status == gfi_status_pin = "High"
       IN  fpc' = (IF gfi_status THEN "f_send" ELSE "f_lock")
    /\ UNCHANGED << OnlyFault, async_interrupt, fault_q >>

\* the wait returns with the lock; gfi_status && contactor decides
FaultInspect ==
    /\ Running
    /\ fpc = "f_woken"
    /\ LET gfi_status == gfi_status_pin = "High"
           contactor_high == contactor_pin = "High"
       IN  fpc' = (IF gfi_status /\ contactor_high THEN "f_send" ELSE "f_lock")
    /\ UNCHANGED << OnlyFault, async_interrupt, fault_q >>

\* fault_tx.send(Fault::GFIInterrupted)?, blocking while the channel is
\* full; the lock is released at the end of the block
FaultSend ==
    /\ Running
    /\ fpc = "f_send"
    /\ Len(fault_q) < QueueCap
    /\ fault_q' = Append(fault_q, "GFIInterrupted")
    /\ fpc' = "f_lock"
    /\ UNCHANGED << OnlyFault, async_interrupt >>

\* if let Err(e) = res { fault_tx.send(InternalFaultThreadError).unwrap() }
\* and the thread ends, which drops the only sender
FaultReport ==
    /\ Running
    /\ fpc = "f_err"
    /\ Len(fault_q) < QueueCap
    /\ fault_q' = Append(fault_q, "InternalFaultThreadError")
    /\ fpc' = "f_done"
    /\ UNCHANGED << OnlyFault, async_interrupt >>

(***************************************************************************)
(* fn start_adc_thread: the sampler                                        *)
(***************************************************************************)
OnlySampler ==
    << machine, pc, stack, mainLocals, self_test_result, contactor, pinVars,
       gfi_status_pin, wdVars, pilotVars, listen_to_pilot, faultVars, sc_log,
       st_reads, lastVars >>

\* adc.lock().unwrap(); peak_to_peak_pilot().unwrap(); .. : a read of the
\* ADC that returns Err makes the thread panic, which ends the thread alone
\* and drops pilot_tx.  A scripted vehicle is read without failure.  The
\* step belongs to SpecAdc; in Spec the ADC answers every read.
SamplerReadFails ==
    /\ Running
    /\ spc = "s_sample"
    /\ fed = -1
    /\ spc' = "s_done"
    /\ UNCHANGED << OnlySampler, pilot_q >>

\* a sampler iteration that goes on to the send without loading the flag
SamplerSample_NoGate ==
    /\ Running
    /\ spc = "s_sample"
    /\ spc' = "s_send"
    /\ UNCHANGED << OnlySampler, pilot_q >>

\* (min, max) = locked_adc.peak_to_peak_pilot().unwrap(); ..
\* sleep(200 ms); if listen_to_pilot.load(Ordering::Relaxed) { .. }
\* The pair read is an input of the environment that nothing else depends
\* on; the model draws it where it is used, at the send.  Up to the load
\* the iteration touches nothing the other threads see, so the step is the
\* load: with the flag clear the iteration ends without a send.
SamplerSample ==
    /\ Running
    /\ spc = "s_sample"
    /\ spc' = (IF listen_to_pilot THEN "s_send" ELSE "s_sample")
    /\ UNCHANGED << OnlySampler, pilot_q >>

\* what peak_to_peak_pilot can return for the next reading that is sent: any
\* of Readings, or the next reading of the script when the pilot is scripted
PilotReadings ==
    IF fed = -1 THEN Readings
    ELSE IF fed < Len(script) THEN {script[fed + 1]}
    ELSE {}

\* pilot_tx.send((min, max)), blocking while the channel is full; then the
\* sensors store is updated, which the control loop only logs
SamplerSend ==
    /\ Running
    /\ spc = "s_send"
    /\ Len(pilot_q) < QueueCap
    /\ \E min_max \in PilotReadings : pilot_q' = Append(pilot_q, min_max)
    /\ fed' = (IF fed = -1 THEN fed ELSE fed + 1)
    /\ spc' = "s_sample"
    /\ UNCHANGED << machine, pc, stack, mainLocals, self_test_result,
                    contactor, pinVars, gfi_status_pin, wdVars, pilotVars,
                    listen_to_pilot, faultVars, sc_log, st_reads,
                    consumeVars, gfi_rose_on, script, sel, relay_read >>

(***************************************************************************)
(* The environment: the GFI-status input changes level.  A rising edge     *)
(* runs the installed handler, whose notify_all wakes the listener if it   *)
(* is waiting.                                                             *)
(***************************************************************************)
GfiEdge ==
    /\ Running
    /\ gfi_status_pin' = (IF gfi_status_pin = "Low" THEN "High" ELSE "Low")
    /\ fpc' = (IF gfi_status_pin = "Low" /\ async_interrupt /\ fpc = "f_wait"
               THEN "f_woken" ELSE fpc)
    /\ gfi_rose_on' = (gfi_status_pin = "Low" /\ contactor_pin = "High")
    /\ UNCHANGED << machine, pc, stack, mainLocals, self_test_result,
                    contactor, pinVars, wdVars, pilotVars, listen_to_pilot,
                    fault_q, samplerVars, pilot_q, sc_log, st_reads,
                    consumeVars, script, fed, sel, relay_read >>

(***************************************************************************)
(* The running system                                                      *)
(***************************************************************************)
\* after EVSEHardwareImpl::new() and the spawning of the two threads
InitFacade ==
    /\ machine = "SelfTest"
    /\ state_input = "PilotInError"
    /\ res = "none"
    /\ next_state_input = "None"
    /\ self_test_result = "none"
    /\ cycle = 0
    /\ contactor = "Off"
    /\ contactor_pin = "Low"
    /\ gfi_test_pin = "Low"
    /\ gfi_status_pin \in Level
    /\ async_interrupt = FALSE
    /\ power_watchdog_oscillating = FALSE
    /\ wave_tx = FALSE
    /\ pwm_duty = 0
    /\ duty_cycle = 0
    /\ current_offer = 0
    /\ listen_to_pilot = FALSE
    /\ fpc = "f_lock"
    /\ fault_q = << >>
    /\ spc = "s_sample"
    /\ pilot_q = << >>
    /\ sc_log = << "pin_Low", "watchdog_kept" >>
    /\ st_reads = << >>
    /\ t_from = "none"
    /\ t_input = "none"
    /\ t_min_max = << 0, 0 >>
    /\ t_prev = << >>
    /\ relay_read = "none"
    /\ current_sensor = << >>
    /\ mains_peak = << >>
    /\ last_update = 0
    /\ cs_added = 0
    /\ mains_added = 0
    /\ gfi_rose_on = FALSE
    /\ sel = "try"

\* start_machine calls run_gfi_self_test first, from its SelfTest arm
InitMachine ==
    /\ InitFacade
    /\ pc = "st_1"
    /\ stack = << "boot_ok" >>

\* the pilot readings are any of Readings, in any order
Init ==
    /\ InitMachine
    /\ script = << >>
    /\ fed = -1

MainStep ==
    \/ ScWatchdogOn \/ ScWritePin \/ ScWatchdogOff
    \/ St1 \/ St2 \/ St3 \/ St4 \/ St5 \/ StOn \/ StOff \/ St6
    \/ Standby1 \/ Standby2 \/ Standby3 \/ Standby4 \/ Standby5 \/ Standby6
    \/ VehicleDetected1 \/ VehicleDetected2 \/ SetCurrentOffer
    \/ SetGroundTestOff
    \/ StartCharging1 \/ StartCharging2 \/ StartCharging3 \/ StartCharging4
    \/ StartCharging5
    \/ Charging1 \/ StopCharging2 \/ StopCharging3 \/ NoPower2 \/ NoPower4
    \/ Other1 \/ Other2
    \/ SelectBlock \/ RecvPilot \/ RecvFault \/ Consume \/ BootOk \/ BootErr \/ ErrorArm
    \/ Panic

FaultStep ==
    FaultInstall \/ FaultSpuriousWake \/ FaultInspect \/ FaultSend
        \/ FaultReport

SamplerStep == SamplerSample \/ SamplerSend

Next == MainStep \/ FaultStep \/ SamplerStep \/ GfiEdge

Spec == Init /\ [][Next]_vars


(***************************************************************************)
(* The state machine on its own, driven as the unit tests of evse.rs drive *)
(* it: a fresh machine is given inputs with machine.consume(&input).       *)
(***************************************************************************)
InitFsm ==
    /\ Init
    /\ gfi_status_pin = "Low"

TestConsume ==
    \E input \in Inputs :
        /\ machine' = consume(machine, input)
        /\ t_from' = machine
        /\ t_input' = input
        /\ UNCHANGED << pc, stack, mainLocals, self_test_result, contactor,
                        pinVars, gfi_status_pin, wdVars, pilotVars,
                        listen_to_pilot, faultVars, samplerVars, pilot_q,
                        sc_log, st_reads, gfi_rose_on, script, fed, sel,
                        t_min_max, t_prev, relay_read, sensorVars >>

NextFsm == TestConsume

SpecFsm == InitFsm /\ [][NextFsm]_vars


(***************************************************************************)
(* The classifier on its own: get_pilot_state is applied to every pair     *)
(* (min, max) of voltages between -MaxVolt and +MaxVolt, in steps of        *)
(* 1/VoltScale volt, with min <= max as peak_to_peak_pilot returns them.    *)
(***************************************************************************)
MaxVolt == 15

PilotGrid ==
    { mm \in ((-MaxVolt * VoltScale)..(MaxVolt * VoltScale))
               \X ((-MaxVolt * VoltScale)..(MaxVolt * VoltScale)) :
        mm[1] <= mm[2] }

\* let state_input = get_pilot_state(min_max); one pair for each run of the
\* harness, which starts as if it had classified (0, 0)
TestClassify ==
    \E min_max \in PilotGrid :
        /\ t_min_max = << 0, 0 >>
        /\ state_input' = get_pilot_state(min_max)
        /\ t_min_max' = min_max
        /\ UNCHANGED << machine, pc, stack, res, next_state_input, cycle,
                        self_test_result, contactor, pinVars, gfi_status_pin,
                        wdVars, pilotVars, listen_to_pilot, faultVars,
                        samplerVars, pilot_q, sc_log, st_reads, gfi_rose_on,
                        script, fed, sel, t_from, t_input, t_prev, relay_read,
                        sensorVars >>

NextPilot == TestClassify

SpecPilot == InitFsm /\ [][NextPilot]_vars


(***************************************************************************)
(* The sensors store on its own (sensors.rs): add_cs_reading and           *)
(* add_mains_peak_reading are called in any order on a fresh SensorsState.  *)
(* The code never inspects the value of a reading, so a reading is held as  *)
(* the ordinal of the call that added it to its sequence.                   *)
(***************************************************************************)
\* what a step of the sensors harness leaves alone
OnlySensors ==
    << machine, pc, stack, mainLocals, self_test_result, contactor, pinVars,
       gfi_status_pin, wdVars, pilotVars, listen_to_pilot, faultVars,
       samplerVars, pilot_q, sc_log, st_reads, gfi_rose_on, script, fed, sel,
       t_from, t_input, t_min_max, t_prev, relay_read >>

\* a push that on overflow removes the reading it has just added
PushReading_DropNewest(v, r) ==
    LET pushed == Append(v, r)
    IN  IF Len(pushed) > MAX_READINGS THEN v ELSE pushed

\* v.push(r); if v.len() > Self::MAX_READINGS { v.remove(0); }
PushReading(v, r) ==
    LET pushed == Append(v, r)
    IN  IF Len(pushed) > MAX_READINGS THEN Tail(pushed) ELSE pushed

\* SensorsState::add_cs_reading
add_cs_reading ==
    /\ cs_added < MaxAdds
    /\ cs_added' = cs_added + 1
    /\ current_sensor' = PushReading(current_sensor, cs_added')
    /\ last_update' = cs_added' + mains_added
    /\ UNCHANGED << mains_peak, mains_added, OnlySensors >>

\* SensorsState::add_mains_peak_reading
add_mains_peak_reading ==
    /\ mains_added < MaxAdds
    /\ mains_added' = mains_added + 1
    /\ mains_peak' = PushReading(mains_peak, mains_added')
    /\ last_update' = cs_added + mains_added'
    /\ UNCHANGED << current_sensor, cs_added, OnlySensors >>

NextSensors == add_cs_reading \/ add_mains_peak_reading

SpecSensors == InitFsm /\ [][NextSensors]_vars


(***************************************************************************)
(* The running system with its threads scheduled fairly: the main thread,  *)
(* the sampler and the listener each take a step they can take.  Nothing   *)
(* is assumed of the GFI-status input, nor of Condvar::wait returning      *)
(* without a notification.                                                 *)
(***************************************************************************)
FaultProgress == FaultInstall \/ FaultInspect \/ FaultSend \/ FaultReport

SpecLive ==
    /\ Spec
    /\ WF_vars(MainStep)
    /\ WF_vars(FaultProgress)
    /\ WF_vars(SamplerStep)

(***************************************************************************)
(* The running system with a scripted vehicle: the sampler delivers the    *)
(* readings of one of the end-to-end scenarios, once each and in order,    *)
(* and no other.  Everything else is as in Spec.                           *)
(***************************************************************************)
\* the reading (-12, v)
PilotAt(v) == << -12 * VoltScale, v * VoltScale >>

\* S1, clean charge cycle: +12, +9, +6, +9, +12
ScriptS1 == << PilotAt(12), PilotAt(9), PilotAt(6), PilotAt(9), PilotAt(12) >>

\* S4, vehicle unplugged during charging: +12, +9, +6, +12
ScriptS4 == << PilotAt(12), PilotAt(9), PilotAt(6), PilotAt(12) >>

\* S5, ventilation-needed vehicle: +12, +9, +3
ScriptS5 == << PilotAt(12), PilotAt(9), PilotAt(3) >>

\* S6, pilot error: +12, +9, (0, 0), +12
ScriptS6 == << PilotAt(12), PilotAt(9), << 0, 0 >>, PilotAt(12) >>

\* pilot at -12 V with a vehicle detected: +12, +9, -12
ScriptNoPower == << PilotAt(12), PilotAt(9), PilotAt(-12) >>

\* pilot at -12 V during charging: +12, +9, +6, -12
ScriptChargingMinus12 ==
    << PilotAt(12), PilotAt(9), PilotAt(6), PilotAt(-12) >>

\* pilot error during charging: +12, +9, +6, (0, 0)
ScriptChargingError == << PilotAt(12), PilotAt(9), PilotAt(6), << 0, 0 >> >>

Scripts ==
    {ScriptS1, ScriptS4, ScriptS5, ScriptS6, ScriptNoPower,
     ScriptChargingMinus12, ScriptChargingError}

InitScript ==
    /\ InitMachine
    /\ script \in Scripts
    /\ fed = 0

SpecScript ==
    /\ InitScript
    /\ [][Next]_vars
    /\ WF_vars(MainStep)
    /\ WF_vars(FaultProgress)
    /\ WF_vars(SamplerStep)

\* how many readings of the script the control loop has received
Received == fed - Len(pilot_q)

(***************************************************************************)
(*                              Properties                                 *)
(***************************************************************************)

\* a set_contactor(On) call is entered, or the contactor pin goes High
IssuesOn ==
    \/ pc' = "sc_wd_on" /\ pc # "sc_wd_on"
    \/ contactor' = "On" /\ contactor # "On"
    \/ contactor_pin' = "High" /\ contactor_pin # "High"

\* C1: the contactor is commanded On only by the StartCharging action, and
\* only after run_gfi_self_test has returned SelfTestOk to that action; no
\* step of any other state's action, of the error arm or of another thread
\* commands it On.
C1_OnOnlyAfterSelfTest ==
    [][IssuesOn => /\ machine = "StartCharging"
                   /\ self_test_result = "SelfTestOk"
                   /\ res # "Err"]_vars

C1_Witness ==
    /\ machine = "StartCharging"
    /\ self_test_result = "SelfTestOk"
    /\ contactor = "On"
    /\ contactor_pin = "High"

C3_FailedStationOff ==
    pc = "halted" =>
        /\ contactor = "Off"
        /\ contactor_pin = "Low"
        /\ \/ ~power_watchdog_oscillating
           \/ sc_log = << "pin_Low", "watchdog_stop_failed" >>

\* the place of event e in the log of the set_contactor call, 0 if absent
LogPos(e) ==
    IF \E k \in 1..Len(sc_log) : sc_log[k] = e
    THEN CHOOSE k \in 1..Len(sc_log) : sc_log[k] = e
    ELSE 0

\* C4: in a set_contactor(On) call the pin is written High only after the
\* watchdog was started in that call, and not at all if the start failed;
\* in a set_contactor(Off) call the watchdog is stopped (or its stop
\* attempted) only after the pin was written Low.
C4_WatchdogOrdering ==
    /\ contactor = "On" =>
          /\ LogPos("pin_High") > 0 =>
                /\ LogPos("watchdog_start") > 0
                /\ LogPos("watchdog_start") < LogPos("pin_High")
          /\ LogPos("watchdog_start_failed") > 0 => LogPos("pin_High") = 0
          /\ LogPos("pin_Low") = 0
    /\ contactor = "Off" =>
          /\ LogPos("watchdog_stop") > 0 =>
                /\ LogPos("pin_Low") > 0
                /\ LogPos("pin_Low") < LogPos("watchdog_stop")
          /\ LogPos("watchdog_stop_failed") > 0 =>
                /\ LogPos("pin_Low") > 0
                /\ LogPos("pin_Low") < LogPos("watchdog_stop_failed")
          /\ LogPos("pin_High") = 0

C4_Witness ==
    /\ contactor = "Off"
    /\ sc_log = << "pin_Low", "watchdog_stop" >>
    /\ machine = "StopCharging"

\* C5: the contactor pin is never High while the watchdog waveform is not
\* being transmitted, at any step of any thread.
C5_NeverEnergizedQuiet ==
    ~(contactor_pin = "High" /\ ~wave_tx)

\* between the pin write and the watchdog stop of a set_contactor(Off)
C5_Witness ==
    /\ pc = "sc_wd_off"
    /\ contactor_pin = "Low"
    /\ wave_tx

\* C6: from every state but SelfTest and FailedStation, consuming
\* GFIInterrupted, NoGround or HardwareFault gives FailedStation.
C6_FaultToFailedStation ==
    ( /\ t_from \in States \ {"SelfTest", "FailedStation"}
      /\ t_input \in {"GFIInterrupted", "NoGround", "HardwareFault"} )
        => machine = "FailedStation"

\* C7: once the machine is in FailedStation no input changes its state, and
\* the main thread does nothing but halt: no command, no receive, no further
\* transition action.
C7_FailedStationAbsorbing ==
    [][machine = "FailedStation" =>
          /\ machine' = "FailedStation"
          /\ \A input \in Inputs : consume(machine, input) = machine
          /\ pc \in {"panic", "halted"}
          /\ pc' = "halted" \/ pc' = pc
          /\ UNCHANGED << stack, mainLocals, self_test_result, contactor,
                          contactor_pin, gfi_test_pin, wdVars, pilotVars,
                          listen_to_pilot >>
          /\ Len(pilot_q') >= Len(pilot_q)
          /\ Len(fault_q') >= Len(fault_q)]_vars

C7_Witness ==
    /\ machine = "FailedStation"
    /\ pc = "halted"

\* the GFI-status levels of a passing self-test: Low at both reads before
\* the burst, High after the burst, Low at every read after the reset
SelfTestPassReads ==
    << "Low", "Low", "High", "Low", "Low", "Low", "Low" >>

\* C8: run_gfi_self_test returns SelfTestOk only if the GFI-status input
\* read Low before the burst, High after it and Low after the reset; with
\* any other readings it returns an error, which is a HardwareFault.
C8_SelfTestOkOnlyOnPass ==
    /\ self_test_result = "SelfTestOk" => st_reads = SelfTestPassReads
    /\ self_test_result \notin {"none", "SelfTestOk"} =>
          /\ self_test_result = "HardwareFault"
          /\ st_reads # SelfTestPassReads
    /\ (~InSelfTest /\ st_reads # SelfTestPassReads) =>
          self_test_result # "SelfTestOk"

C8_Witness ==
    /\ self_test_result = "SelfTestOk"
    /\ machine = "StartCharging"
    /\ st_reads = SelfTestPassReads

\* the filled cells of the transition table of the specification (section
\* 4.5), as <<from, input, next>>; P0 has no cell and the code no input
TransitionTable ==
    { <<"SelfTest", "SelfTestOk", "Standby">>,
      <<"SelfTest", "SelfTestFailed", "FailedStation">>,
      <<"SelfTest", "HardwareFault", "FailedStation">>,
      <<"Standby", "PilotIs12V", "Standby">>,
      <<"Standby", "PilotIs9V", "VehicleDetected">>,
      <<"Standby", "PilotIs6V", "ResetableError">>,
      <<"Standby", "PilotIs3V", "ResetableError">>,
      <<"Standby", "PilotIsNegative12V", "FailedStation">>,
      <<"Standby", "GFIInterrupted", "FailedStation">>,
      <<"Standby", "NoGround", "FailedStation">>,
      <<"Standby", "HardwareFault", "FailedStation">>,
      <<"VehicleDetected", "PilotIs12V", "Standby">>,
      <<"VehicleDetected", "PilotIs9V", "VehicleDetected">>,
      <<"VehicleDetected", "PilotIs6V", "StartCharging">>,
      <<"VehicleDetected", "PilotIs3V", "VentilationNeeded">>,
      <<"VehicleDetected", "PilotIsNegative12V", "NoPower">>,
      <<"VehicleDetected", "PilotInError", "ResetableError">>,
      <<"VehicleDetected", "GFIInterrupted", "FailedStation">>,
      <<"VehicleDetected", "NoGround", "FailedStation">>,
      <<"VehicleDetected", "HardwareFault", "FailedStation">>,
      <<"StartCharging", "SelfTestOk", "Charging">>,
      <<"StartCharging", "SelfTestFailed", "ResetableError">>,
      <<"StartCharging", "PilotInError", "ResetableError">>,
      <<"StartCharging", "GFIInterrupted", "FailedStation">>,
      <<"StartCharging", "NoGround", "FailedStation">>,
      <<"StartCharging", "HardwareFault", "FailedStation">>,
      <<"Charging", "PilotIs12V", "StopCharging">>,
      <<"Charging", "PilotIs9V", "StopCharging">>,
      <<"Charging", "PilotIs6V", "Charging">>,
      <<"Charging", "PilotIs3V", "VentilationNeeded">>,
      <<"Charging", "PilotIsNegative12V", "StopCharging">>,
      <<"Charging", "PilotInError", "StopCharging">>,
      <<"Charging", "GFIInterrupted", "FailedStation">>,
      <<"Charging", "NoGround", "FailedStation">>,
      <<"Charging", "HardwareFault", "FailedStation">>,
      <<"StopCharging", "PilotInError", "ResetableError">>,
      <<"StopCharging", "GFIInterrupted", "FailedStation">>,
      <<"StopCharging", "NoGround", "FailedStation">>,
      <<"StopCharging", "HardwareFault", "FailedStation">>,
      <<"StopCharging", "ChargingFinished", "Standby">>,
      <<"NoPower", "PilotIsNegative12V", "NoPower">>,
      <<"NoPower", "HardwareFault", "FailedStation">>,
      <<"ResetableError", "PilotIs12V", "Standby">> }

\* the next state the table gives: the cell, or no change where it has none
TableNext(s, input) ==
    IF \E c \in TransitionTable : c[1] = s /\ c[2] = input
    THEN (CHOOSE c \in TransitionTable : c[1] = s /\ c[2] = input)[3]
    ELSE s

C10_ErrorToFailedStation ==
    [][(pc = "consume" /\ res = "Err" /\ res' # "Err") =>
          /\ state_input = "HardwareFault"
          /\ contactor = "Off"
          /\ contactor_pin = "Low"
          /\ machine' = "FailedStation"]_vars


\* a reading the classifier maps to +12 V is in the pilot channel
Plus12Delivered ==
    \E k \in 1..Len(pilot_q) : get_pilot_state(pilot_q[k]) = "PilotIs12V"

\* C11: when the machine is in ResetableError and the sampler has delivered
\* a +12 V reading, the machine eventually is in Standby.
C11_ResetableErrorClears ==
    (machine = "ResetableError" /\ Plus12Delivered) ~> (machine = "Standby")


\* a GFIInterrupted is on the fault queue
GfiPublished ==
    \E k \in 1..Len(fault_q) : fault_q[k] = "GFIInterrupted"

\* C12: when the GFI-status input has risen with the contactor pin High and
\* both are High, then eventually the listener has put GFIInterrupted on
\* the fault queue, unless one of the two goes Low again (or the process
\* has ended, or the listener has stopped on a failure to install its
\* handler).
C12_GfiPublished ==
    (gfi_rose_on /\ gfi_status_pin = "High" /\ contactor_pin = "High")
        ~> \/ GfiPublished
           \/ gfi_status_pin = "Low"
           \/ contactor_pin = "Low"
           \/ ~Running
           \/ fpc \in {"f_err", "f_done"}


\* the step puts a GFIInterrupted on the fault queue
PublishesGfi ==
    /\ Len(fault_q') = Len(fault_q) + 1
    /\ fault_q'[Len(fault_q')] = "GFIInterrupted"

\* C13: the listener, inspecting an edge while the contactor pin is Low,
\* goes back to waiting without publishing; a GFIInterrupted is put on the
\* fault queue only with the contactor pin High (it cannot change between
\* the inspection and the send), and never while the main thread is inside
\* run_gfi_self_test.
C13_NoFaultWhileOff ==
    [][/\ (fpc = "f_woken" /\ fpc' # fpc /\ contactor_pin = "Low") =>
              (fpc' = "f_lock" /\ fault_q' = fault_q)
       /\ PublishesGfi => (contactor_pin = "High" /\ ~InSelfTest)
       /\ fpc' = "f_send" => contactor_pin' = "High"]_vars

\* the listener has been woken by an edge of the self-test's burst
C13_Witness ==
    /\ fpc = "f_woken"
    /\ pc \in {"st_on", "st_off", "st_6"}
    /\ gfi_status_pin = "High"
    /\ contactor_pin = "Low"


\* C14: in the clean charge cycle (script S1: +12, +9, +6, +9, +12), as long
\* as no fault is raised, the control loop waits for its k-th reading
\* in the state the chain SelfTest -> Standby -> VehicleDetected ->
\* StartCharging -> Charging -> StopCharging -> Standby prescribes, and it
\* does reach the end of the chain: Standby with all five readings consumed.
\* StartCharging and StopCharging never wait for a reading: their successful
\* actions hand SelfTestOk and ChargingFinished to consume directly.
S1AtRecv ==
    << "Standby", "Standby", "VehicleDetected", "Charging", "Standby",
       "Standby" >>

S1Chain ==
    (script = ScriptS1 /\ machine # "FailedStation") =>
        /\ pc = "recv" => machine = S1AtRecv[Received + 1]
        /\ machine \in {"StartCharging", "StopCharging"} => pc # "recv"
        /\ (pc = "consume" /\ res # "Err" /\ machine = "StartCharging")
               => state_input = "SelfTestOk"
        /\ (pc = "consume" /\ res # "Err" /\ machine = "StopCharging")
               => state_input = "ChargingFinished"
        /\ machine \in {"SelfTest", "Standby", "VehicleDetected",
                        "StartCharging", "Charging", "StopCharging"}

S1Done ==
    /\ pc = "recv"
    /\ Received = 5
    /\ machine = "Standby"

\* a fault stopped the station, or the listener has published one
FaultRaised ==
    \/ machine = "FailedStation"
    \/ fault_q # << >>

BootFailed ==
    /\ machine = "SelfTest"
    /\ self_test_result = "HardwareFault"

\* C15: when the boot-time GFI self-test fails, the machine leaves SelfTest
\* for FailedStation at the next consume; until then the loop never waits
\* on the queues and takes nothing from them, and the contactor stays
\* commanded Off with its pin Low, in SelfTest and on entering FailedStation.
C15_BootFailureHalts ==
    [][/\ BootFailed =>
             /\ machine' \in {"SelfTest", "FailedStation"}
             /\ (pc = "consume" /\ pc' # pc) => machine' = "FailedStation"
             /\ pc' # "recv"
             /\ Len(pilot_q') >= Len(pilot_q)
             /\ Len(fault_q') >= Len(fault_q)
             /\ contactor' = "Off"
             /\ contactor_pin' = "Low"
             /\ pc' # "sc_wd_on"
       /\ machine = "SelfTest" =>
             /\ contactor = "Off"
             /\ contactor_pin = "Low"
             /\ pc # "recv"
             /\ machine' \in {"SelfTest", "Standby", "FailedStation"}]_vars

C15_Witness ==
    /\ machine = "FailedStation"
    /\ pc = "panic"
    /\ ~listen_to_pilot
    /\ st_reads = << "Low", "Low", "Low" >>
    /\ contactor = "Off"
    /\ contactor_pin = "Low"

\* the pair last classified, in volts times VoltScale
VMin == t_min_max[1]

VMax == t_min_max[2]

\* the v_min rule of the specification (section 4.2, rule 1): a negative
\* v_min outside [-13, -11] is an Error
VMinRejected ==
    /\ VMin < 0
    /\ VMin < -13 * VoltScale \/ VMin > -11 * VoltScale

\* C16: the classifier returns Error for every pair whose v_min is negative
\* and outside [-13, -11], above -11 as well as below -13.
C16_VMinOutsideWindowIsError ==
    VMinRejected => state_input = "PilotInError"

\* v_max in the window of the specification around c volts, endpoints
\* included
InWindow(c) ==
    /\ (c - 1) * VoltScale <= VMax
    /\ VMax <= (c + 1) * VoltScale

\* the symbol the specification gives v_max (section 4.2, rule 2)
WindowSymbol ==
    IF InWindow(12) THEN "PilotIs12V"
    ELSE IF InWindow(9) THEN "PilotIs9V"
    ELSE IF InWindow(6) THEN "PilotIs6V"
    ELSE IF InWindow(3) THEN "PilotIs3V"
    ELSE IF InWindow(-12) THEN "PilotIsNegative12V"
    ELSE "PilotInError"

\* C17: for every pair that passes the v_min rule, the classifier returns
\* the symbol of the window v_max lies in, endpoints included, and Error
\* when v_max lies in no window.
C17_SymbolByVMaxWindow ==
    ~VMinRejected => state_input = WindowSymbol


\* C18: a set_current_offer_ampere(a) that returns Ok leaves the pilot PWM
\* at the duty a / 0.6 / 100 (a * 100 in units of 1/6000), and the duty the
\* Pilot caches is the duty of the PWM.
C18_DutyIsOffer ==
    [][(pc \in {"vd_3", "stop_1", "np_1"}
            /\ pc' \in {"vd_4", "stop_2", "np_2"}) =>
           /\ pwm_duty' = current_offer' * 100
           /\ pwm_duty' = duty_cycle']_vars


\* Standby's entry action has completed: set_waiting_for_vehicle has
\* returned Ok, or the loop is waiting for or consuming an input in Standby
StandbyEntered ==
    /\ machine = "Standby"
    /\ pc \in {"sb_4", "sb_5", "sb_6", "recv", "consume"}
    /\ res # "Err"

\* C19: once Standby's entry action has set the pilot to waiting for a
\* vehicle, and until the machine leaves Standby, the pilot PWM is at the
\* waiting duty, which is at least 100 %, whatever offers were set before.
C19_StandbyPilotWaiting ==
    StandbyEntered => (pwm_duty = DutyWaiting /\ pwm_duty >= DutyOne)

C19_Witness ==
    /\ StandbyEntered
    /\ pc = "recv"
    /\ duty_cycle = 0
    /\ current_offer = 0
    /\ pwm_duty = DutyWaiting


\* the statements of do_state_transition that check the relay mirror after
\* the contactor was commanded and the settle time has passed
RelayChecks ==
    {"sb_6", "vd_2", "start_1", "start_5", "ch_1", "stop_3", "np_4",
     "other_2"}

\* C20: at every relay check of a state's action, a HardwareFault is raised
\* if and only if the relay mirror read differs from the level the contactor
\* is commanded to.
C20_FaultIffRelayDiffers ==
    [][(pc \in RelayChecks /\ pc' # pc) =>
           ((pc' = "sm_err") <=> (relay_read' # IntoLevel(contactor)))]_vars


\* the n most recent of `added` readings, oldest first, for n = the smaller
\* of added and MAX_READINGS
MostRecent(added) ==
    LET n == IF added < MAX_READINGS THEN added ELSE MAX_READINGS
    IN  [i \in 1..n |-> added - n + i]

\* C21: after any sequence of add_cs_reading and add_mains_peak_reading
\* calls, each sequence holds at most MAX_READINGS readings, and they are
\* the most recently added ones in insertion order; the time of the last
\* update is that of the last insertion.
C21_MostRecentReadings ==
    /\ Len(current_sensor) <= MAX_READINGS
    /\ Len(mains_peak) <= MAX_READINGS
    /\ current_sensor = MostRecent(cs_added)
    /\ mains_peak = MostRecent(mains_added)
    /\ last_update = cs_added + mains_added

C21_Witness ==
    /\ cs_added > MAX_READINGS
    /\ mains_added > MAX_READINGS
    /\ Len(current_sensor) = MAX_READINGS
    /\ current_sensor[1] = cs_added - MAX_READINGS + 1
    /\ mains_peak[MAX_READINGS] = mains_added


\* C22: a sampler iteration goes on to its send only if it loads the
\* listen_to_pilot flag set, the send then enqueues one pair, and the flag is
\* still set when the pair is enqueued; no pair is enqueued otherwise; while the machine is in SelfTest the flag is clear, and
\* as long as the flag has not been set (by Standby) the pilot queue is empty.
C22_SentIffListening ==
    /\ [](/\ spc = "s_send" => listen_to_pilot
          /\ machine = "SelfTest" => ~listen_to_pilot
          /\ ~listen_to_pilot => pilot_q = << >>)
    /\ [][/\ Len(pilot_q') > Len(pilot_q) =>
                (listen_to_pilot /\ spc = "s_send" /\ machine # "SelfTest")
          /\ (spc = "s_sample" /\ spc' # spc) =>
                (spc' = "s_done" \/ (listen_to_pilot /\ spc' = "s_send"))
          /\ (spc = "s_send" /\ spc' # spc) =>
                Len(pilot_q') = Len(pilot_q) + 1]_vars

C22_Witness ==
    /\ listen_to_pilot
    /\ pilot_q # << >>
    /\ machine = "Standby"
    /\ pc = "recv"
    /\ spc = "s_sample"


\* the main thread is inside run_gfi_self_test, or in the settling wait of
\* the Standby action
SensitiveSequence ==
    \/ InSelfTest
    \/ machine = "Standby" /\ pc = "sb_5"

\* C23: while the main thread runs a GFI self-test (at boot or inside
\* StartCharging) or the Standby settling wait, the listen_to_pilot gate is
\* closed and the sampler is not at a send.
C23_GateClosedWhileSensitive ==
    SensitiveSequence => (~listen_to_pilot /\ spc # "s_send")


\* the listener is blocked in its send on a full fault queue, holding the
\* pins lock the main thread needs
ListenerBlocked ==
    /\ fpc = "f_send"
    /\ Len(fault_q) >= QueueCap

C25_VehicleDetected6VCharging ==
    (t_from = "VehicleDetected" /\ t_input = "PilotIs6V")
        => machine = "Charging"

\* C26: consuming PilotIs9V in Charging leaves the machine in
\* VehicleDetected.
C26_Charging9VVehicleDetected ==
    (t_from = "Charging" /\ t_input = "PilotIs9V")
        => machine = "VehicleDetected"

(***************************************************************************)
(* set_contactor called again and again (evse.rs 395-414), each call on    *)
(* the facade as the call before left it.  A call that fails ends at       *)
(* "sm_err", a call that returns Ok at "sc_test".                          *)
(***************************************************************************)
InitContactor ==
    /\ InitFacade
    /\ script = << >>
    /\ fed = -1
    /\ pc = "sc_test"
    /\ stack = << >>

\* what the last call left: its argument, its result, the contactor pin,
\* the cached oscillation flag, the wave, and what the call did
CallRecord ==
    << contactor, IF pc = "sm_err" THEN "Err" ELSE "Ok", contactor_pin,
       power_watchdog_oscillating, wave_tx, sc_log >>

\* hw.set_contactor(state), for any state
TestSetContactor ==
    /\ pc \in {"sc_test", "sm_err"}
    /\ \E state \in {"On", "Off"} : CallSetContactor(state, "sc_test")
    /\ t_prev' = (IF t_prev = << >> THEN << "new" >> ELSE CallRecord)
    /\ UNCHANGED << machine, mainLocals, self_test_result, pinVars,
                    gfi_status_pin, wdVars, pilotVars, listen_to_pilot,
                    faultVars, samplerVars, pilot_q, st_reads, t_from,
                    t_input, t_min_max, sensorVars, gfi_rose_on, script, fed,
                    sel,
                    relay_read >>

NextContactor ==
    \/ TestSetContactor
    \/ ScWatchdogOn
    \/ ScWritePin
    \/ ScWatchdogOff

SpecContactor == InitContactor /\ [][NextContactor]_vars

\* the last call has ended and repeats the argument of the call before it,
\* which returned Ok
RepeatedCall ==
    /\ pc \in {"sc_test", "sm_err"}
    /\ Len(t_prev) = 6
    /\ t_prev[1] = contactor
    /\ t_prev[2] = "Ok"

ContactorCallOk ==
    /\ pc \notin {"sc_wd_on", "sc_pin", "sc_wd_off"}
    /\ \A k \in 1..Len(sc_log) :
          sc_log[k] \notin {"watchdog_start_failed", "watchdog_stop_failed"}

C29_StopChargingOrder ==
    machine = "StopCharging" =>
        /\ pc = "stop_2" => current_offer = 0
        /\ ( \/ pc = "stop_3"
             \/ pc \in {"sc_pin", "sc_wd_off"} /\ Head(stack) = "stop_3" ) =>
              (current_offer = 0 /\ contactor = "Off")
        /\ next_state_input = "ChargingFinished" =>
              /\ pc = "consume"
              /\ contactor = "Off"
              /\ contactor_pin = "Low"
              /\ sc_log \in {<< "pin_Low", "watchdog_stop" >>,
                             << "pin_Low", "watchdog_kept" >>}
              /\ relay_read = "Low"

\* ChargingFinished has been injected and is about to be consumed
C29_Witness ==
    /\ machine = "StopCharging"
    /\ pc = "consume"
    /\ next_state_input = "ChargingFinished"
    /\ relay_read = "Low"
    /\ current_offer = 0


\* sel.select() returns at its first look at the channels, with a fault on
\* the fault queue: the fault was put there before the receive was called
SelectFindsFault ==
    /\ pc = "recv"
    /\ sel = "try"
    /\ fault_q # << >>
    /\ pc' = "consume"

\* the receive returns the oldest fault
TakesFault ==
    /\ state_input' = FaultInput(Head(fault_q))
    /\ fault_q' = Tail(fault_q)

\* the receive returns the oldest pilot reading, or PilotInError for a
\* pilot channel that is empty and closed, and leaves the fault queue
TakesPilot ==
    /\ fault_q' = fault_q
    /\ \/ /\ pilot_q # << >>
          /\ state_input' = get_pilot_state(Head(pilot_q))
          /\ pilot_q' = Tail(pilot_q)
       \/ /\ pilot_q = << >>
          /\ spc = "s_done"
          /\ state_input' = "PilotInError"

ListenerFaultReceived ==
    /\ pc = "consume"
    /\ res = "none"
    /\ state_input = "HardwareFault"

\* C31: a listener that has failed publishes InternalFaultThreadError, the
\* receive turns it into HardwareFault, and the consume of that input takes
\* the machine to FailedStation from every state whose arm receives.
C31_ListenerFailureToFailedStation ==
    [][ /\ (fpc = "f_err" /\ fpc' # fpc) =>
              fault_q' = Append(fault_q, "InternalFaultThreadError")
        /\ ( /\ pc = "recv"
             /\ pc' = "consume"
             /\ fault_q # << >>
             /\ fault_q' # fault_q
             /\ Head(fault_q) = "InternalFaultThreadError" ) =>
              state_input' = "HardwareFault"
        /\ (ListenerFaultReceived /\ pc' # pc) =>
              machine' = "FailedStation" ]_vars


(***************************************************************************)
(* The running system with an ADC whose reads may fail: everything of Spec, *)
(* and a sampler that may end at any of its reads.  The threads are         *)
(* scheduled fairly, as in SpecLive.                                        *)
(***************************************************************************)
NextAdc == Next \/ SamplerReadFails

SpecAdc ==
    /\ Init
    /\ [][NextAdc]_vars
    /\ WF_vars(MainStep)
    /\ WF_vars(FaultProgress)
    /\ WF_vars(SamplerStep)

\* the receive takes from a pilot channel that is empty and closed
RecvFromClosedPilot ==
    /\ pc = "recv"
    /\ pc' = "consume"
    /\ spc = "s_done"
    /\ pilot_q = << >>
    /\ fault_q' = fault_q

\* the PilotInError of the closed pilot channel is about to be consumed in
\* Charging
ClosedPilotInCharging ==
    /\ machine = "Charging"
    /\ pc = "consume"
    /\ spc = "s_done"
    /\ pilot_q = << >>
    /\ state_input = "PilotInError"

\* C32: a receive from the closed and empty pilot channel yields
\* PilotInError; consumed in Charging it takes the machine to StopCharging,
\* and the contactor is then commanded Off, before the machine leaves
\* StopCharging.
C32_ClosedPilotStopsCharging ==
    /\ [][ /\ RecvFromClosedPilot => state_input' = "PilotInError"
           /\ (ClosedPilotInCharging /\ pc' # pc) =>
                 machine' = "StopCharging"
           /\ (machine = "StopCharging" /\ machine' # machine) =>
                 contactor = "Off" ]_vars
    /\ ClosedPilotInCharging ~> (machine = "StopCharging" /\ contactor = "Off")

\* the contactor is closed when the closed channel's PilotInError arrives
C32_Witness ==
    /\ ClosedPilotInCharging
    /\ contactor = "On"
    /\ contactor_pin = "High"


\* C33: in NoPower, when the action reaches its relay check it has commanded
\* 0 A, contactor Off and GFI-test Off; a relay mirror that reads the level
\* of the commanded contactor raises no fault there; and a P-12 reading
\* consumed in NoPower leaves the machine in NoPower.
C33_NoPowerHoldsOff ==
    [][ machine = "NoPower" =>
          /\ (pc = "np_4" /\ pc' # pc) =>
                /\ current_offer = 0
                /\ contactor = "Off"
                /\ contactor_pin = "Low"
                /\ gfi_test_pin = "Low"
                /\ relay_read' = IntoLevel(contactor) => pc' = "recv"
          /\ (pc = "consume" /\ pc' # pc
                /\ state_input = "PilotIsNegative12V") =>
                machine' = "NoPower" ]_vars


\* C34: whenever the machine is in ResetableError the current offer of the
\* facade is 0 A and the contactor is commanded Off.
C34_ResetableErrorOff ==
    machine = "ResetableError" =>
        /\ current_offer = 0
        /\ contactor = "Off"


\* C35: the listener is never blocked in a send on a full fault queue while
\* it holds the pins lock.
C35_ListenerNeverBlocksWithLock ==
    ~(PinsLocked /\ ListenerBlocked)


\* C36: StartCharging hands SelfTestOk to consume, and so the machine enters
\* Charging, only after its action has run a GFI self-test that passed and
\* commanded the contactor On.
C36_ChargingOnlyAfterSelfTestAndOn ==
    [][ ( /\ machine = "StartCharging"
          /\ pc = "consume"
          /\ state_input = "SelfTestOk"
          /\ pc' # pc ) =>
            /\ machine' = "Charging"
            /\ self_test_result = "SelfTestOk"
            /\ contactor = "On"
            /\ contactor_pin = "High" ]_vars



(***************************************************************************)
(* The listener's handler while the contactor is closed.                   *)
(***************************************************************************)

\* The listener is blocked in cond.wait (evse.rs:295-297): only the
\* rising-edge callback it installed, or a spurious wake-up, ends the wait.
ListenerWaiting == fpc = "f_wait"

\* C37: whenever the contactor is commanded On and the fault listener is
\* waiting for a ground fault, the rising-edge handler that wakes it is
\* installed on the GFI-status input: no operation of the main loop removes
\* the handler of a waiting listener.
C37_HandlerInstalledWhileOn ==
    (contactor = "On" /\ ListenerWaiting) => async_interrupt


(***************************************************************************)
(* run_gfi_self_test leaves the test pin Off and the contactor open        *)
(***************************************************************************)

\* the step returns from run_gfi_self_test: Ok(SelfTestOk) at line 147, or an
\* Err at one of its return Err(..) and ? (lines 112-144)
SelfTestExit == InSelfTest /\ ~InSelfTest'

\* the test is past its second statement, evse.set_contactor(OnOff::Off)?
\* (line 112): the call has been made, though it may not have returned yet
SelfTestPastOff == InSelfTest /\ pc \notin {"st_1", "st_2"}

\* C38: on every exit of run_gfi_self_test, with Ok or with any Err, the
\* GFI-test pin is left commanded Off (Low); the contactor is commanded Off
\* at the start of the test and is never commanded On while the test runs,
\* so it is still commanded Off at the exit.
C38_SelfTestLeavesTestPinOff ==
    [][ /\ SelfTestExit => (gfi_test_pin' = "Low" /\ contactor' = "Off")
        /\ SelfTestPastOff => contactor = "Off"
        /\ (pc = "st_2" /\ pc' # pc) => contactor' = "Off" ]_vars

\* the test has returned Err because the burst on the GFI-test pin did not
\* trip the GFI (line 129): the pin was pulsed GFI_TEST_CYCLES times before
C38_Witness ==
    /\ pc \in {"sm_err", "boot_err"}
    /\ self_test_result = "HardwareFault"
    /\ Len(st_reads) = 3
    /\ st_reads[3] = "Low"
    /\ gfi_test_pin = "Low"


(***************************************************************************)
(* VentilationNeeded: no entry in the table, the `_` arm of                *)
(* do_state_transition                                                     *)
(***************************************************************************)

InVentilation == machine = "VentilationNeeded"

\* the main thread takes a message off the pilot or the fault channel
TakesQueuedInput ==
    \/ Len(pilot_q') < Len(pilot_q)
    \/ Len(fault_q') < Len(fault_q)

\* what holds in VentilationNeeded once its action has called
\* set_contactor(Off): the contactor is commanded Off, its pin is Low once
\* the call has written it, and the watchdog is stopped by the time the
\* action has returned Ok(None)
VentilationHoldsOff ==
    /\ (InVentilation /\ pc # "other_1") => contactor = "Off"
    /\ (InVentilation /\ pc \notin {"other_1", "sc_pin"}) =>
           contactor_pin = "Low"
    /\ (InVentilation /\ pc = "recv") => ~power_watchdog_oscillating

SkipsWrite ==
    /\ pc \in {"vd_3", "stop_1", "np_1"}
    /\ pc' \in {"vd_4", "stop_2", "np_2"}
    /\ duty_cycle' = duty_cycle

\* C40: after every step the duty cycle the Pilot caches is the duty last
\* written to the PWM, so a set_duty_cycle(d) that skips its write finds the
\* PWM already at d, also when set_to_waiting_for_vehicle was called since.
C40_CachedDutyIsPwmDuty ==
    [][ /\ duty_cycle' = pwm_duty'
        /\ SkipsWrite => (pwm_duty = duty_cycle /\ pwm_duty' = duty_cycle') ]_vars

=============================================================================
